---- MODULE Spec2Model ----
(***************************************************************************)
(* A model of split_markdown.py: the heading scanner, the section splitter *)
(* split_markdown, the title sanitizer, the file writer and main.          *)
(*                                                                         *)
(* A text is a sequence of one-character strings.  An Optional value of    *)
(* the source (None or a value) is a sequence of length 0 or 1.            *)
(***************************************************************************)
EXTENDS Integers, Sequences, FiniteSets, TLC

\* ------------------------------------------------------------------ bounds

\* Longest text given to split_markdown.
MaxLen == 6

\* Characters the texts given to split_markdown are made of.
Alphabet == {"#", " ", "a", "\n", "\r"}

\* Levels split_markdown is called with: 1..6 and the two nearest invalid ones.
Levels == 0..7

\* Most repetitions of a block in an input file of main: in every kind of
\* run, and in the runs that write the sections of a long file.
SmallSections == 2

MaxSections == 101

\* What the input files of main start with, and the blocks they repeat.
Prefixes == {<<>>, <<"a", "\r", "\n">>}

Blocks == {<<"#", " ", "a", "\n">>, <<"#", "#", " ", "\r", "b", "\n">>}

\* The block a long file repeats.
LongBlock == <<"#", " ", "a", "\n">>

\* Levels main is run with.
MainLevels == {0, 1, 2}

\* Longest enumerated part of a title given to _sanitize_title.
MaxTitleShort == 4

\* Characters those titles are made of: a letter, the underscore, the space,
\* a tab (whitespace that is not a space) and "!" (standing for every other
\* character outside the class, the non-ASCII ones included).
TitleAlphabet == {"a", "_", " ", "!", "\t"}

\* What a long title repeats after its enumerated part.
TailBlocks == {<<"a">>, <<"!">>, <<" ", "b">>}

\* ------------------------------------------------------------ Optional, text

None == <<>>

Some(x) == <<x>>

\* str.isspace() / the regular expression class \s, on the characters a
\* TLA+ string can hold.
Whitespace == {" ", "\t", "\n", "\r", "\f"}

\* The line boundaries of str.splitlines() a TLA+ string can hold.
LineBreaks == {"\n", "\r", "\f"}

\* All sequences over S of length at most n.
RECURSIVE SeqsUpTo(_, _)
SeqsUpTo(S, n) ==
    IF n = 0 THEN {<<>>}
    ELSE LET shorter == SeqsUpTo(S, n - 1)
         IN shorter \cup {Append(s, c) : s \in {t \in shorter : Len(t) = n - 1}, c \in S}

\* n copies of block, one after the other.
RECURSIVE Repeat(_, _)
Repeat(block, n) ==
    IF n = 0 THEN <<>> ELSE block \o Repeat(block, n - 1)

\* "".join(parts[lo..hi]), by halves.
RECURSIVE JoinRange(_, _, _)
JoinRange(parts, lo, hi) ==
    IF lo > hi THEN <<>>
    ELSE IF lo = hi THEN parts[lo]
    ELSE LET mid == (lo + hi) \div 2
         IN JoinRange(parts, lo, mid) \o JoinRange(parts, mid + 1, hi)

\* "".join(parts)
Join(parts) == JoinRange(parts, 1, Len(parts))

\* str.strip(): leading and trailing whitespace removed.
RECURSIVE LStrip(_)
LStrip(s) ==
    IF s # <<>> /\ Head(s) \in Whitespace THEN LStrip(Tail(s)) ELSE s

RECURSIVE RStrip(_)
RStrip(s) ==
    IF s # <<>> /\ s[Len(s)] \in Whitespace
    THEN RStrip(SubSeq(s, 1, Len(s) - 1))
    ELSE s

Strip(s) == RStrip(LStrip(s))

\* ------------------------------------------------------------ str.splitlines

\* The first position at or after i holding a line boundary, Len(text) + 1
\* when there is none.
RECURSIVE BreakAt(_, _)
BreakAt(text, i) ==
    IF i > Len(text) \/ text[i] \in LineBreaks THEN i ELSE BreakAt(text, i + 1)

\* The length of the line ending starting at position j: "\r\n" counts as one.
EndingLen(text, j) ==
    IF text[j] = "\r" /\ j + 1 <= Len(text) /\ text[j + 1] = "\n" THEN 2 ELSE 1

\* text.splitlines(keepends), scanning from position i.
RECURSIVE SplitLinesFrom(_, _, _)
SplitLinesFrom(text, i, keepends) ==
    IF i > Len(text) THEN <<>>
    ELSE LET j == BreakAt(text, i)
             next == IF j > Len(text) THEN j ELSE j + EndingLen(text, j)
             line == SubSeq(text, i, IF keepends THEN next - 1 ELSE j - 1)
         IN <<line>> \o SplitLinesFrom(text, next, keepends)

SplitLines(text, keepends) == SplitLinesFrom(text, 1, keepends)

\* ------------------------------------------------------------ parse_headings

\* The number of "#" characters the line starts with.
RECURSIVE HashRun(_)
HashRun(line) ==
    IF line # <<>> /\ Head(line) = "#" THEN 1 + HashRun(Tail(line)) ELSE 0

\* HEADING_PATTERN.match(line): ^(#{1,6})\s+(.*)$ on a line without its ending.
HeadingMatch(line) ==
    LET k == HashRun(line)
    IN /\ 1 <= k
       /\ k <= 6
       /\ k + 1 <= Len(line)
       /\ line[k + 1] \in Whitespace

\* Heading(level, title, line_number) of a matching line; line numbers are
\* 0-based as in the source.
HeadingOf(line, index) ==
    LET k == HashRun(line)
    IN [level |-> k,
        title |-> Strip(SubSeq(line, k + 1, Len(line))),
        line_number |-> index]

\* parse_headings(lines): the headings of the matching lines, in order.
parse_headings(lines) ==
    LET numbered == [n \in 1..Len(lines) |-> [line |-> lines[n], index |-> n - 1]]
        matching == SelectSeq(numbered, LAMBDA e : HeadingMatch(e.line))
    IN [n \in 1..Len(matching) |-> HeadingOf(matching[n].line, matching[n].index)]

\* ------------------------------------------------------------ split_markdown

\* LevelValid with the lower limit off by one.
LevelValidFromZero(lv) == 0 <= lv /\ lv <= 6

\* The precondition on level.
LevelValid(lv) == 1 <= lv /\ lv <= 6

\* IsSplitHead taking one level deeper as well.
IsSplitHeadDeeper(h, lv) == h.level <= lv + 1

\* A heading that starts a section.
IsSplitHead(h, lv) == h.level <= lv

SplitHeads(hs, lv) == SelectSeq(hs, LAMBDA h : IsSplitHead(h, lv))

\* BodyStart that keeps the heading line in the content.
BodyStartAtHeading(heading_level, start) == start

\* The first line of a section's content.
BodyStart(heading_level, start) ==
    IF heading_level = None THEN start ELSE start + 1

\* add_section: what the call appends to the sections, nothing when the range
\* is empty, else the one new section.  keep are the lines with their endings.
add_section(keep, title, heading_level, start, end) ==
    IF start > end THEN <<>>
    ELSE LET body_start == BodyStart(heading_level, start)
             content == IF end < body_start THEN <<>>
                        ELSE Join(SubSeq(keep, body_start + 1, end + 1))
         IN <<[title |-> title,
               level |-> heading_level,
               content |-> content,
               start_line |-> start,
               end_line |-> end]>>

\* HasPreamble that misses a preamble of one line.
HasPreambleAfterOne(first_start) == first_start > 1

\* Whether a preamble section precedes the first split head.
HasPreamble(first_start) == first_start > 0

\* EndLineOf ending a section on the next split head's line.
EndLineOnNextHead(heads, index, last_line_index) ==
    IF index + 1 < Len(heads)
    THEN heads[index + 2].line_number
    ELSE IF last_line_index >= 0 THEN last_line_index
         ELSE heads[index + 1].line_number

\* EndLineOf ending the final section on its own heading line.
EndLineFinalOnHeading(heads, index, last_line_index) ==
    IF index + 1 < Len(heads)
    THEN heads[index + 2].line_number - 1
    ELSE heads[index + 1].line_number

\* The last line of the section of the split head at position index (0-based).
EndLineOf(heads, index, last_line_index) ==
    IF index + 1 < Len(heads)
    THEN heads[index + 2].line_number - 1
    ELSE IF last_line_index >= 0 THEN last_line_index
         ELSE heads[index + 1].line_number

\* The loop over the split heads: what each turn appends, one after the other.
HeadSections(keep, heads, last_line_index) ==
    LET added == [n \in 1..Len(heads) |->
                     add_section(keep, Some(heads[n].title), Some(heads[n].level),
                                 heads[n].line_number,
                                 EndLineOf(heads, n - 1, last_line_index))]
        kept == SelectSeq(added, LAMBDA a : a # <<>>)
    IN [n \in 1..Len(kept) |-> kept[n][1]]

\* The sections built from the lines and the split heads.
BuildSections(plain, keep, heads) ==
    LET last_line_index == Len(plain) - 1
    IN IF heads = <<>>
       THEN IF plain # <<>>
            THEN add_section(keep, None, None, 0, last_line_index)
            ELSE <<>>
       ELSE LET first_start == heads[1].line_number
                pre == IF HasPreamble(first_start)
                       THEN add_section(keep, None, None, 0, first_start - 1)
                       ELSE <<>>
            IN pre \o HeadSections(keep, heads, last_line_index)

\* split_markdown(text, level) for a valid level.
split_markdown(t, lv) ==
    LET plain == SplitLines(t, FALSE)
        keep == SplitLines(t, TRUE)
    IN BuildSections(plain, keep, SplitHeads(parse_headings(plain), lv))

\* ----------------------------------------------------------- _sanitize_title

\* The characters of the class [A-Za-z0-9_\-].
SafeChars ==
    {"A", "B", "C", "D", "E", "F", "G", "H", "I", "J", "K", "L", "M",
     "N", "O", "P", "Q", "R", "S", "T", "U", "V", "W", "X", "Y", "Z",
     "a", "b", "c", "d", "e", "f", "g", "h", "i", "j", "k", "l", "m",
     "n", "o", "p", "q", "r", "s", "t", "u", "v", "w", "x", "y", "z",
     "0", "1", "2", "3", "4", "5", "6", "7", "8", "9", "_", "-"}

\* The placeholder "untitled".
Untitled == <<"u", "n", "t", "i", "t", "l", "e", "d">>

\* The length safe[:40] cuts to.
TitleLimit == 40

\* ReplaceSpaces that leaves the spaces to the substitution of runs.
ReplaceSpacesNot(s) == s

\* s.replace(" ", "_")
ReplaceSpaces(s) == [i \in 1..Len(s) |-> IF s[i] = " " THEN "_" ELSE s[i]]

\* The first position at or after i holding a character of the class,
\* Len(s) + 1 when there is none.
RECURSIVE RunEnd(_, _)
RunEnd(s, i) ==
    IF i > Len(s) \/ s[i] \in SafeChars THEN i ELSE RunEnd(s, i + 1)

\* re.sub(r"[^A-Za-z0-9_\-]+", "_", s), scanning from position i: each
\* leftmost longest run of characters outside the class becomes one "_".
RECURSIVE SubRunsFrom(_, _)
SubRunsFrom(s, i) ==
    IF i > Len(s) THEN <<>>
    ELSE IF s[i] \in SafeChars THEN <<s[i]>> \o SubRunsFrom(s, i + 1)
         ELSE <<"_">> \o SubRunsFrom(s, RunEnd(s, i))

SubRuns(s) == SubRunsFrom(s, 1)

\* Truncate without a limit.
TruncateNot(s) == s

\* safe[:40]
Truncate(s) == SubSeq(s, 1, IF Len(s) < TitleLimit THEN Len(s) ELSE TitleLimit)

\* _sanitize_title(title), title an Optional text.
_sanitize_title(t) ==
    IF t = None \/ t[1] = <<>> THEN Untitled
    ELSE LET replaced == ReplaceSpaces(Strip(t[1]))
             subbed == SubRuns(replaced)
             safe == IF subbed = <<>> THEN Untitled ELSE subbed
         IN Truncate(safe)

\* ---------------------------------------------------- _write_sections_to_dir

DigitChars == <<"0", "1", "2", "3", "4", "5", "6", "7", "8", "9">>

\* str(n) for n >= 0.
RECURSIVE Str(_)
Str(n) ==
    IF n < 10 THEN <<DigitChars[n + 1]>>
    ELSE Str(n \div 10) \o <<DigitChars[(n % 10) + 1]>>

\* s.zfill(width)
Zfill(s, width) ==
    IF Len(s) >= width THEN s ELSE [i \in 1..(width - Len(s)) |-> "0"] \o s

\* The narrowest index field.
MinPadding == 2

\* Padding that never widens.
PaddingFixed(total) == MinPadding

\* padding = max(2, len(str(total)))
Padding(total) ==
    IF Len(Str(total)) > MinPadding THEN Len(Str(total)) ELSE MinPadding

\* f"{str(index).zfill(padding)}_{safe_title}.md"
FileName(index, padding, safe_title) ==
    Zfill(Str(index), padding) \o <<"_">> \o safe_title \o <<".", "m", "d">>

\* The heading line written before the body: the section's line of the
\* original text, closed by "\n" when it has no ending.
HeadingLine(section, original_lines) ==
    IF section.level # None /\ section.start_line < Len(original_lines)
    THEN LET line == original_lines[section.start_line + 1]
         IN IF line # <<>> /\ line[Len(line)] \in {"\n", "\r"}
            THEN line
            ELSE line \o <<"\n">>
    ELSE <<>>

\* Path.read_text() reads with universal newlines: "\r\n" and "\r" become "\n"
\* (the "\n" of a "\r\n" is dropped, every "\r" becomes "\n").
UniversalNewlines(data) ==
    LET read == [i \in 1..Len(data) |->
                    IF data[i] = "\n" /\ i > 1 /\ data[i - 1] = "\r" THEN ""
                    ELSE IF data[i] = "\r" THEN "\n"
                    ELSE data[i]]
    IN SelectSeq(read, LAMBDA c : c # "")

\* Path.write_text() writes each "\n" as the platform's line separator.
RECURSIVE WriteNewlines(_, _)
WriteNewlines(s, linesep) ==
    IF s = <<>> THEN <<>>
    ELSE (IF Head(s) = "\n" THEN linesep ELSE <<Head(s)>>)
         \o WriteNewlines(Tail(s), linesep)

\* ---------------------------------------------------- _print_sections_summary

\* Stands for the placeholder the summary prints for a section without title
\* (the source's text is not ASCII).
NoTitle == <<"(", "n", "o", "n", "e", ")">>

\* The width of the summary's title column.
TitleColumn == 30

\* f"{title:<30.30}": cut to 30 characters, then padded with spaces to 30.
FitColumn(s) ==
    LET cut == SubSeq(s, 1, IF Len(s) < TitleColumn THEN Len(s) ELSE TitleColumn)
    IN cut \o [i \in 1..(TitleColumn - Len(cut)) |-> " "]

\* One row of the summary.
SummaryRow(idx, section) ==
    [kind |-> "row",
     idx |-> idx,
     level |-> IF section.level = None THEN 0 ELSE section.level[1],
     title |-> FitColumn(IF section.title = None \/ section.title[1] = <<>>
                         THEN NoTitle ELSE section.title[1]),
     lines |-> IF section.content = <<>> THEN 0
               ELSE Len(SplitLines(section.content, FALSE))]

\* What _print_sections_summary prints.
SummaryLines(secs) ==
    IF secs = <<>> THEN <<[kind |-> "nothing_found"]>>
    ELSE <<[kind |-> "header"], [kind |-> "rule"]>>
         \o [i \in 1..Len(secs) |-> SummaryRow(i, secs[i])]

\* ---------------------------------------------------------------------- main

\* OutputDirGiven that takes the writing branch in every run.
OutputDirAlways(output_dir) == TRUE

\* if args.output_dir: the option was given and is not the empty string.
OutputDirGiven(output_dir) == output_dir # None /\ output_dir[1] # ""

\* ------------------------------------------------------------------- state

VARIABLES
    text,                \* split_markdown's argument text
    level,               \* split_markdown's argument level
    pc,                  \* the position in split_markdown
    plain_lines,         \* its local plain_lines
    lines_with_endings,  \* its local lines_with_endings
    split_heads,         \* its local split_heads
    sections,            \* its local sections, the value returned
    title,               \* _sanitize_title's argument, an Optional text
    spc,                 \* the position in _sanitize_title
    safe_title,          \* the value _sanitize_title returns
    env,                 \* main: the files and the platform the run starts with
    args,                \* main: the parsed arguments
    mpc,                 \* main: the position in the run
    mtext,               \* main: its local text
    msections,           \* main: its local sections
    original_lines,      \* main: its local original_lines
    windex,              \* the writer: the sections written so far
    out_dir,             \* the output path on the filesystem
    writes,              \* the names given to write_text, in order
    stdout,              \* the lines printed
    merror               \* the exception that ended the run, an Optional

splitVars == <<text, level, pc, plain_lines, lines_with_endings, split_heads, sections>>

sanVars == <<title, spc, safe_title>>

mainVars == <<env, args, mpc, mtext, msections, original_lines, windex, out_dir,
              writes, stdout, merror>>

vars == <<splitVars, sanVars, mainVars>>

\* The components a specification does not run.
SplitIdle ==
    /\ text = <<>>
    /\ level = 0
    /\ pc = "idle"
    /\ plain_lines = <<>>
    /\ lines_with_endings = <<>>
    /\ split_heads = <<>>
    /\ sections = <<>>

SanIdle ==
    /\ title = None
    /\ spc = "idle"
    /\ safe_title = <<>>

NoPath == [kind |-> "absent", files |-> <<>>]

MainIdle ==
    /\ env = [input |-> [kind |-> "missing", data |-> <<>>],
              out0 |-> NoPath,
              linesep |-> <<"\n">>]
    /\ args = [level |-> 0, output_dir |-> None]
    /\ mpc = "idle"
    /\ mtext = <<>>
    /\ msections = <<>>
    /\ original_lines = <<>>
    /\ windex = 0
    /\ out_dir = NoPath
    /\ writes = <<>>
    /\ stdout = <<>>
    /\ merror = None

\* ----------------------------------------------------- split_markdown: steps

Texts == SeqsUpTo(Alphabet, MaxLen)

Init ==
    /\ text \in Texts
    /\ level \in Levels
    /\ pc = "check"
    /\ plain_lines = <<>>
    /\ lines_with_endings = <<>>
    /\ split_heads = <<>>
    /\ sections = <<>>
    /\ SanIdle
    /\ MainIdle

\* Lines 71-72: the level is checked first.
CheckLevel ==
    /\ pc = "check"
    /\ pc' = IF LevelValid(level) THEN "lines" ELSE "raised"
    /\ UNCHANGED <<text, level, plain_lines, lines_with_endings, split_heads, sections>>
    /\ UNCHANGED <<sanVars, mainVars>>

\* Lines 74-75: the two line lists.
TakeLines ==
    /\ pc = "lines"
    /\ plain_lines' = SplitLines(text, FALSE)
    /\ lines_with_endings' = SplitLines(text, TRUE)
    /\ pc' = "scan"
    /\ UNCHANGED <<text, level, split_heads, sections>>
    /\ UNCHANGED <<sanVars, mainVars>>

\* Lines 76-77: the headings, and those that split.
ScanHeadings ==
    /\ pc = "scan"
    /\ split_heads' = SplitHeads(parse_headings(plain_lines), level)
    /\ pc' = "build"
    /\ UNCHANGED <<text, level, plain_lines, lines_with_endings, sections>>
    /\ UNCHANGED <<sanVars, mainVars>>

\* Lines 79-130: the sections.
Build ==
    /\ pc = "build"
    /\ sections' = BuildSections(plain_lines, lines_with_endings, split_heads)
    /\ pc' = "returned"
    /\ UNCHANGED <<text, level, plain_lines, lines_with_endings, split_heads>>
    /\ UNCHANGED <<sanVars, mainVars>>

Next == CheckLevel \/ TakeLines \/ ScanHeadings \/ Build

Spec == Init /\ [][Next]_vars

\* ---------------------------------------------------- _sanitize_title: steps

\* The numbers of repetitions that bring a title around the limit of 40.
TailCounts == {0} \cup ((TitleLimit - 2)..(TitleLimit + 1))

SanTitles ==
    {None} \cup
    {Some(s \o Repeat(b, m)) :
        s \in SeqsUpTo(TitleAlphabet, MaxTitleShort), b \in TailBlocks, m \in TailCounts}

SanInit ==
    /\ title \in SanTitles
    /\ spc = "call"
    /\ safe_title = <<>>
    /\ SplitIdle
    /\ MainIdle

\* Lines 140-145: the call returns the sanitized title.
Sanitize ==
    /\ spc = "call"
    /\ safe_title' = _sanitize_title(title)
    /\ spc' = "returned"
    /\ UNCHANGED <<title, splitVars, mainVars>>

SanNext == Sanitize

SpecSanitize == SanInit /\ [][SanNext]_vars

\* ---------------------------------------------------------------- main: steps

\* A file of the output directory left by an earlier run.
OldFile == <<"0", "1", "_", "a", ".", "m", "d">> :> <<"o", "l", "d">>

InputFiles ==
    {[kind |-> k, data |-> <<>>] : k \in {"missing", "undecodable"}} \cup
    {[kind |-> "ok", data |-> p \o Repeat(b, n)] :
        p \in Prefixes, b \in Blocks, n \in 0..SmallSections}

LongFiles ==
    {[kind |-> "ok", data |-> p \o Repeat(LongBlock, n)] :
        p \in Prefixes, n \in (SmallSections + 1)..MaxSections}

OutputPaths ==
    {NoPath,
     [kind |-> "file", files |-> <<>>],
     [kind |-> "dir", files |-> <<>>],
     [kind |-> "dir", files |-> OldFile]}

LineSeps == {<<"\n">>, <<"\r", "\n">>}

\* The runs of main: every kind of run on the short files, and the runs that
\* write the sections of a long file into a directory.
Runs ==
    {[env |-> e, args |-> a] :
        e \in [input : InputFiles, out0 : OutputPaths, linesep : LineSeps],
        a \in [level : MainLevels, output_dir : {None, Some(""), Some("out")}]}
    \cup
    {[env |-> e, args |-> a] :
        e \in [input : LongFiles,
               out0 : {NoPath, [kind |-> "dir", files |-> OldFile]},
               linesep : {<<"\n">>}],
        a \in [level : {1}, output_dir : {Some("out")}]}

\* Line 220: the arguments are parsed; nothing is read, written or printed yet.
MainInit ==
    /\ \E r \in Runs : env = r.env /\ args = r.args
    /\ mpc = "read"
    /\ mtext = <<>>
    /\ msections = <<>>
    /\ original_lines = <<>>
    /\ windex = 0
    /\ out_dir = env.out0
    /\ writes = <<>>
    /\ stdout = <<>>
    /\ merror = None
    /\ SplitIdle
    /\ SanIdle

\* Line 222: input_path.read_text(encoding); a missing or undecodable file
\* raises.
ReadInput ==
    /\ mpc = "read"
    /\ IF env.input.kind = "ok"
       THEN /\ mtext' = UniversalNewlines(env.input.data)
            /\ mpc' = "split"
            /\ UNCHANGED merror
       ELSE /\ merror' = Some(IF env.input.kind = "missing"
                              THEN "FileNotFoundError" ELSE "UnicodeDecodeError")
            /\ mpc' = "failed"
            /\ UNCHANGED mtext
    /\ UNCHANGED <<env, args, msections, original_lines, windex, out_dir, writes, stdout>>
    /\ UNCHANGED <<splitVars, sanVars>>

\* Lines 223-225: split_markdown(text, level), which raises on an invalid
\* level, then the choice of the output.
SplitInput ==
    /\ mpc = "split"
    /\ IF LevelValid(args.level)
       THEN /\ msections' = split_markdown(mtext, args.level)
            /\ mpc' = IF OutputDirGiven(args.output_dir) THEN "mkdir" ELSE "summary"
            /\ UNCHANGED merror
       ELSE /\ merror' = Some("ValueError")
            /\ mpc' = "failed"
            /\ UNCHANGED msections
    /\ UNCHANGED <<env, args, mtext, original_lines, windex, out_dir, writes, stdout>>
    /\ UNCHANGED <<splitVars, sanVars>>

\* Lines 226 and 159: the lines of the text, then
\* output_dir.mkdir(parents=True, exist_ok=True), which raises when the path is
\* a file.
MakeDir ==
    /\ mpc = "mkdir"
    /\ original_lines' = SplitLines(mtext, TRUE)
    /\ IF out_dir.kind = "file"
       THEN /\ merror' = Some("FileExistsError")
            /\ mpc' = "failed"
            /\ UNCHANGED out_dir
       ELSE /\ out_dir' = [kind |-> "dir", files |-> out_dir.files]
            /\ mpc' = "write"
            /\ UNCHANGED merror
    /\ UNCHANGED <<env, args, mtext, msections, windex, writes, stdout>>
    /\ UNCHANGED <<splitVars, sanVars>>

\* Lines 163-174: one turn of the loop writes one section's file, replacing a
\* file of the same name.
WriteSection ==
    /\ mpc = "write"
    /\ windex < Len(msections)
    /\ LET index == windex + 1
           section == msections[index]
           filename == FileName(index, Padding(Len(msections)),
                                _sanitize_title(section.title))
           content == HeadingLine(section, original_lines) \o section.content
       IN /\ out_dir' = [out_dir EXCEPT
                            !.files = (filename :> WriteNewlines(content, env.linesep)) @@ @]
          /\ writes' = Append(writes, filename)
          /\ windex' = index
    /\ UNCHANGED <<env, args, mpc, mtext, msections, original_lines, stdout, merror>>
    /\ UNCHANGED <<splitVars, sanVars>>

\* Line 233: after the loop, the count confirmation.
PrintCount ==
    /\ mpc = "write"
    /\ windex = Len(msections)
    /\ stdout' = Append(stdout, [kind |-> "count",
                                 n |-> Len(msections),
                                 dir |-> args.output_dir])
    /\ mpc' = "done"
    /\ UNCHANGED <<env, args, mtext, msections, original_lines, windex, out_dir,
                   writes, merror>>
    /\ UNCHANGED <<splitVars, sanVars>>

\* Line 235: the summary.
PrintSummary ==
    /\ mpc = "summary"
    /\ stdout' = stdout \o SummaryLines(msections)
    /\ mpc' = "done"
    /\ UNCHANGED <<env, args, mtext, msections, original_lines, windex, out_dir,
                   writes, merror>>
    /\ UNCHANGED <<splitVars, sanVars>>

MainNext ==
    ReadInput \/ SplitInput \/ MakeDir \/ WriteSection \/ PrintCount \/ PrintSummary

SpecMain == MainInit /\ [][MainNext]_vars

\* ------------------------------------------------------ split_markdown: claims

\* The lines of the text, with and without their endings, and its headings.
OrigKeep == SplitLines(text, TRUE)

OrigPlain == SplitLines(text, FALSE)

OrigHeadings == parse_headings(OrigPlain)

\* The headings of level <= the target level, in document order.
Qualifying == SelectSeq(OrigHeadings, LAMBDA h : h.level <= level)

\* The headings deeper than the target level.
Deeper == SelectSeq(OrigHeadings, LAMBDA h : h.level > level)

LastLine == Len(OrigPlain) - 1

\* The lines first..last (0-based, inclusive) of the text, with their endings.
LinesText(first, last) == Join(SubSeq(OrigKeep, first + 1, last + 1))

\* A section as re-assembled: its heading line, when it has one, then its content.
Reassembled(s) ==
    (IF s.level # None THEN OrigKeep[s.start_line + 1] ELSE <<>>) \o s.content

\* C1: the heading line (when the section has a level) followed by the content,
\* concatenated over the returned sections in order, is the original text.
C1_RoundTrip ==
    pc = "returned" =>
        Join([i \in 1..Len(sections) |-> Reassembled(sections[i])]) = text

C1_Witness ==
    /\ pc = "returned"
    /\ Len(sections) = 2
    /\ sections[1].level = None
    /\ sections[2].level # None
    /\ \E i \in 1..Len(text) : text[i] = "\r"

\* C2: the sections' inclusive line ranges partition [0, last line]: the first
\* starts at line 0, each next one starts right after the previous end, the last
\* ends at the last line, none is empty; a text without lines has no section.
C2_RangesPartition ==
    pc = "returned" =>
        IF sections = <<>> THEN LastLine = -1
        ELSE /\ sections[1].start_line = 0
             /\ sections[Len(sections)].end_line = LastLine
             /\ \A i \in 1..Len(sections) :
                    sections[i].start_line <= sections[i].end_line
             /\ \A i \in 1..(Len(sections) - 1) :
                    sections[i + 1].start_line = sections[i].end_line + 1

C2_Witness ==
    /\ pc = "returned"
    /\ Len(sections) = 3
    /\ sections[1].level = None
    /\ sections[3].start_line = 2

C2_WitnessLong ==
    /\ pc = "returned"
    /\ Len(sections) = 2
    /\ sections[1].end_line > sections[1].start_line

\* C3: a text without a heading of level <= the target level gives exactly one
\* section, without title and level, from line 0 to the last line, whose content
\* is the whole text; the empty text gives no section.
C3_NoQualifyingHeading ==
    (pc = "returned" /\ Qualifying = <<>>) =>
        IF text = <<>> THEN sections = <<>>
        ELSE sections = <<[title |-> None,
                           level |-> None,
                           content |-> text,
                           start_line |-> 0,
                           end_line |-> LastLine]>>

C3_Witness ==
    /\ pc = "returned"
    /\ Qualifying = <<>>
    /\ Deeper # <<>>
    /\ Len(sections) = 1
    /\ LastLine >= 1

C3_WitnessEmpty ==
    pc = "returned" /\ text = <<>> /\ sections = <<>>

\* C4: a level outside 1..6 raises at the check, before the lines are split or
\* scanned, and no section is produced.
C4_InvalidLevelRaisesFirst ==
    (level < 1 \/ level > 6) =>
        /\ pc \in {"check", "raised"}
        /\ plain_lines = <<>>
        /\ lines_with_endings = <<>>
        /\ split_heads = <<>>
        /\ sections = <<>>

C4_Witness ==
    /\ pc = "raised"
    /\ level = 7
    /\ Qualifying # <<>>
    /\ sections = <<>>

\* The text before the line of the first qualifying heading; the whole text
\* when no heading qualifies.
BeforeFirstQualifying ==
    IF Qualifying = <<>> THEN text
    ELSE LinesText(0, Qualifying[1].line_number - 1)

\* C5: the result starts with a section without level exactly when the text
\* before the first qualifying heading is not empty, and only the first section
\* can be without level.
C5_LeadingSection ==
    pc = "returned" =>
        /\ (sections # <<>> /\ sections[1].level = None)
               <=> (BeforeFirstQualifying # <<>>)
        /\ \A i \in 2..Len(sections) : sections[i].level # None

C5_Witness ==
    /\ pc = "returned"
    /\ Qualifying # <<>>
    /\ BeforeFirstQualifying # <<>>
    /\ sections[1].level = None
    /\ Len(sections) >= 2

C5_WitnessNoLeading ==
    /\ pc = "returned"
    /\ Qualifying # <<>>
    /\ BeforeFirstQualifying = <<>>
    /\ sections[1].level # None

\* The sections that carry a heading.
Headed == SelectSeq(sections, LAMBDA s : s.level # None)

\* C6: with at least one split head, the sections carrying a heading are the
\* split heads in order: title, level, start at the heading's line, end one line
\* before the next split head (the last line for the final one), content the
\* lines after the heading line up to the end; a deeper heading lies inside a
\* section and starts none; a split head directly followed by a split head or
\* by the end of the text has empty content.
C6_HeadedSections ==
    (pc = "returned" /\ Qualifying # <<>>) =>
        /\ Len(Headed) = Len(Qualifying)
        /\ \A i \in 1..Len(Qualifying) :
             LET h == Qualifying[i]
                 s == Headed[i]
                 last == IF i < Len(Qualifying)
                         THEN Qualifying[i + 1].line_number - 1
                         ELSE LastLine
             IN /\ s.title = Some(h.title)
                /\ s.level = Some(h.level)
                /\ s.start_line = h.line_number
                /\ s.end_line = last
                /\ s.content = LinesText(h.line_number + 1, last)
                /\ (last = h.line_number) => s.content = <<>>
        /\ \A j \in 1..Len(Deeper) :
             LET d == Deeper[j].line_number
             IN /\ \A i \in 1..Len(Headed) : Headed[i].start_line # d
                /\ \E i \in 1..Len(sections) :
                     /\ BodyStart(sections[i].level, sections[i].start_line) <= d
                     /\ d <= sections[i].end_line

C6_Witness ==
    /\ pc = "returned"
    /\ Qualifying # <<>>
    /\ Deeper # <<>>
    /\ Headed[1].start_line < Deeper[1].line_number
    /\ Headed[1].content # <<>>

C6_WitnessAdjacent ==
    /\ pc = "returned"
    /\ Len(Qualifying) = 2
    /\ Headed[1].content = <<>>
    /\ Headed[2].content = <<>>
    /\ Headed[2].start_line = Headed[1].start_line + 1

\* ----------------------------------------------------- _sanitize_title: claims

\* C8: the result is never empty, has at most 40 characters, all of them of
\* [A-Za-z0-9_-]; it is "untitled" for a title that is None or empty.
C8_SafeResult ==
    spc = "returned" =>
        /\ safe_title # <<>>
        /\ Len(safe_title) <= 40
        /\ \A i \in 1..Len(safe_title) : safe_title[i] \in SafeChars
        /\ (title = None \/ title = Some(<<>>)) => safe_title = Untitled

C8_Witness ==
    /\ spc = "returned"
    /\ title # None
    /\ Len(title[1]) > 40
    /\ \A i \in 1..MaxTitleShort : title[1][i] \notin SafeChars
    /\ Len(safe_title) = 40

C8_WitnessNone ==
    spc = "returned" /\ title = None /\ safe_title = Untitled

\* Every maximal run of characters outside the class, spaces included,
\* replaced by one underscore.
RECURSIVE CollapseAllRuns(_, _)
CollapseAllRuns(s, i) ==
    IF i > Len(s) THEN <<>>
    ELSE IF s[i] \in SafeChars THEN <<s[i]>> \o CollapseAllRuns(s, i + 1)
         ELSE (IF i > 1 /\ s[i - 1] \notin SafeChars THEN <<>> ELSE <<"_">>)
              \o CollapseAllRuns(s, i + 1)

First40(s) == SubSeq(s, 1, IF Len(s) < 40 THEN Len(s) ELSE 40)

\* C9 as stated, on the titles that neither start nor end with whitespace: the
\* result is the title with every maximal run of characters outside
\* [A-Za-z0-9_-], spaces included, replaced by a single underscore, cut to 40
\* characters.
C9_AllRunsCollapsed ==
    (/\ spc = "returned"
     /\ title # None
     /\ title # Some(<<>>)
     /\ title[1][1] \notin Whitespace
     /\ title[1][Len(title[1])] \notin Whitespace) =>
        safe_title = First40(CollapseAllRuns(title[1], 1))

\* The title without the whitespace at its two ends.
Trimmed(s) ==
    LET inner == {i \in 1..Len(s) : s[i] \notin Whitespace}
    IN IF inner = {} THEN <<>>
       ELSE SubSeq(s, CHOOSE i \in inner : \A j \in inner : i <= j,
                      CHOOSE i \in inner : \A j \in inner : j <= i)

\* A character outside the class that is not a space.
Odd(c) == c \notin SafeChars /\ c # " "

\* Each space replaced by an underscore of its own, each maximal run of
\* other characters outside the class by a single underscore.
RECURSIVE CollapseOddRuns(_, _)
CollapseOddRuns(s, i) ==
    IF i > Len(s) THEN <<>>
    ELSE (IF s[i] \in SafeChars THEN <<s[i]>>
          ELSE IF s[i] = " " THEN <<"_">>
          ELSE IF i > 1 /\ Odd(s[i - 1]) THEN <<>>
          ELSE <<"_">>)
         \o CollapseOddRuns(s, i + 1)

\* C9 as amended: in the title without its leading and trailing whitespace,
\* every space becomes an underscore of its own and every maximal run of other
\* characters outside [A-Za-z0-9_-] becomes a single underscore; an empty result
\* becomes "untitled"; then the result is cut to 40 characters.
C9_SpacesKeptRunsCollapsed ==
    (spc = "returned" /\ title # None /\ title # Some(<<>>)) =>
        LET collapsed == CollapseOddRuns(Trimmed(title[1]), 1)
        IN safe_title = First40(IF collapsed = <<>> THEN Untitled ELSE collapsed)

C9_Witness ==
    /\ spc = "returned"
    /\ title # None
    /\ Len(title[1]) > 40
    /\ SubSeq(title[1], 1, 4) = <<"!", "\t", " ", " ">>
    /\ Len(safe_title) = 40
    /\ SubSeq(safe_title, 1, 5) = <<"_", "_", "_", "_", "b">>

\* -------------------------------------------------- the file writer and main: claims

\* The width of the index field for n sections: 2 up to 99 sections, the number
\* of digits of n beyond.
IndexWidth(n) == IF n < 100 THEN 2 ELSE IF n < 1000 THEN 3 ELSE 4

RECURSIVE Pow10(_)
Pow10(e) == IF e = 0 THEN 1 ELSE 10 * Pow10(e - 1)

\* k in decimal, zero-padded to width w.
Padded(k, w) == [i \in 1..w |-> DigitChars[((k \div Pow10(w - i)) % 10) + 1]]

\* The name of the file of the section at position k of the sections.
ExpectedName(k) ==
    Padded(k, IndexWidth(Len(msections))) \o <<"_">>
        \o _sanitize_title(msections[k].title) \o <<".", "m", "d">>

\* C7: the writer writes one file per section, in section order, the k-th under
\* the name k zero-padded to width max(2, digits of n), "_", the sanitized title,
\* ".md"; the names are pairwise distinct, so an output directory that started
\* empty (or absent) ends with exactly n files, the count the confirmation prints.
C7_OneFilePerSection ==
    /\ (mpc = "write") =>
          /\ Len(writes) = windex
          /\ windex <= Len(msections)
          /\ windex > 0 => writes[windex] = ExpectedName(windex)
    /\ (mpc = "done" /\ OutputDirGiven(args.output_dir)) =>
          LET n == Len(msections)
          IN /\ Len(writes) = n
             /\ \A k \in 1..n : writes[k] = ExpectedName(k)
             /\ \A j, k \in 1..n : j < k => writes[j] # writes[k]
             /\ \A k \in 1..n : writes[k] \in DOMAIN out_dir.files
             /\ env.out0.files = <<>> => Cardinality(DOMAIN out_dir.files) = n
             /\ stdout = <<[kind |-> "count", n |-> n, dir |-> args.output_dir]>>

C7_Witness ==
    /\ mpc = "done"
    /\ Len(msections) > 99
    /\ env.out0 = NoPath
    /\ Cardinality(DOMAIN out_dir.files) = Len(msections)
    /\ msections[1].title = None
    /\ writes[11] = <<"0", "1", "1", "_", "a", ".", "m", "d">>

C7_WitnessEleven ==
    /\ mpc = "done"
    /\ Len(msections) = 11
    /\ writes[11] = <<"1", "1", "_", "a", ".", "m", "d">>

\* The exceptions of a failed read and of an invalid level.
EarlyErrors ==
    {Some("FileNotFoundError"), Some("UnicodeDecodeError"), Some("ValueError")}

\* Nothing written, nothing printed.
Untouched == out_dir = env.out0 /\ writes = <<>> /\ stdout = <<>>

\* C10: main reads, then splits, then either creates the directory, writes the
\* files and prints the count, or prints the summary.  A failed read and an
\* invalid level end the run with the filesystem as it was and nothing printed;
\* a run without --output-dir never writes.
C10_OrderAndFailures ==
    /\ mpc = "read" => (mtext = <<>> /\ msections = <<>> /\ Untouched)
    /\ mpc = "split" => (env.input.kind = "ok" /\ msections = <<>> /\ Untouched)
    /\ mpc = "mkdir" => Untouched
    /\ mpc = "write" => (out_dir.kind = "dir" /\ stdout = <<>>)
    /\ mpc = "summary" => Untouched
    /\ mpc = "done" =>
          IF OutputDirGiven(args.output_dir)
          THEN /\ Len(stdout) = 1
               /\ stdout[1].kind = "count"
               /\ out_dir.kind = "dir"
          ELSE /\ stdout = SummaryLines(msections)
               /\ out_dir = env.out0
               /\ writes = <<>>
    /\ (env.input.kind # "ok" \/ args.level < 1 \/ args.level > 6) =>
          mpc \in {"read", "split", "failed"}
    /\ (mpc = "failed" /\ merror \in EarlyErrors) => Untouched
    /\ args.output_dir = None => (out_dir = env.out0 /\ writes = <<>>)

C10_Witness ==
    /\ mpc = "failed"
    /\ merror = Some("ValueError")
    /\ args.output_dir = Some("out")
    /\ env.out0 = NoPath
    /\ mtext # <<>>
    /\ out_dir = NoPath

C10_WitnessRead ==
    /\ mpc = "failed"
    /\ merror = Some("UnicodeDecodeError")
    /\ args.output_dir = Some("out")
    /\ out_dir = env.out0

====
